---- MODULE Spec2Model ----
(***************************************************************************)
(* Model of the game-session controller `Scene` of src/src/scene.rs:       *)
(* the session state machine, the frame update pipeline, the spawn         *)
(* scheduler, the input router, the outcome resolvers and the draw-time    *)
(* asset gate.                                                             *)
(*                                                                         *)
(* The host calls event, update and draw strictly one after the other, so  *)
(* each call is one atomic action.  Collaborators whose code is not part   *)
(* of scene.rs (the six simulation systems, the audio player, the entity   *)
(* factory, the asset futures, the window) are modelled by their effect on *)
(* the state scene.rs can observe, chosen nondeterministically from small  *)
(* sets.  A call of a fallible collaborator either returns Ok or returns   *)
(* Err, in which case the `?` operator leaves the method at that point.    *)
(*                                                                         *)
(* Entity store (crate specs, as scene.rs uses it): World::create_entity   *)
(* and World::delete_all act at once; an entity a system creates during    *)
(* run_now is allocated atomically ("raised") and an entity a system       *)
(* deletes is marked ("killed"); World::maintain merges both.  delete_all  *)
(* iterates over alive and raised entities alike.                          *)
(***************************************************************************)
EXTENDS Integers, Sequences, FiniteSets, TLC

\* ---------------------------------------------------------------- bounds
MaxBossCycle == 3
MaxInterval == 2
ExtraTicks == 1
MaxFireballs == 1
MaxFlagWrites == 2
MaxFaults == 1

\* Largest number of scheduler ticks a behaviour with configuration c takes:
\* every tick up to the boss tick, and ExtraTicks more.
MaxTicks(c) == c.boss_cycle * c.new_body_cycle + ExtraTicks

\* ------------------------------------------------------------ vocabulary
\* enum GameState (the source spells Initialiazing)
GameStates == {"WaitingInput", "Initialiazing", "Running", "Paused", "GameOver"}

\* GameStateFlagRes.flag : Option<GameStateFlag>
FlagValues == {"Victory", "Defeat"}
NoFlag == "None"

\* KeyboardKeys values that scene.rs stores in PressedKeys
KeyboardKeys == {"KeyUp", "KeyLeft", "KeyRight"}

\* quicksilver keys and gamepad buttons that scene.rs matches on, and one of
\* each that it does not match on ("Down", "DpadDown")
Keys == {"Return", "Escape", "Up", "W", "Left", "A", "Right", "D", "P", "Pause", "Down"}
GamepadButtons == {"DpadUp", "DpadLeft", "DpadRight", "Start", "DpadDown"}
ButtonStates == {"Pressed", "Released"}

\* quicksilver Event, as far as Scene::event distinguishes events
Events ==
    [dev : {"Key"}, code : Keys, bs : ButtonStates]
        \cup [dev : {"GamepadButton"}, code : GamepadButtons, bs : ButtonStates]

KeyEv(k, b) == [dev |-> "Key", code |-> k, bs |-> b]
PadEv(g, b) == [dev |-> "GamepadButton", code |-> g, bs |-> b]

\* kinds of entity in the store
Kinds == {"main_background", "defeat_background", "victory_background",
          "label", "hero", "enemy", "boss", "fireball"}

\* music tracks of SceneConfig
Tracks == {"normal_music", "boss_music", "game_over_music", "victory_music"}

\* state of an Asset<T> future
AssetStates == {"loading", "ready", "failed"}

\* points at which a collaborator called by update can return Err
UpdateFaults == {"none", "play_normal", "play_boss", "create_entity",
                 "play_outcome", "music_update"}

\* points at which a collaborator called by draw can return Err
DrawFaults == {"none", "clear", "font_render", "render_system", "label_render_system"}

\* values of the Hero component (lives, score) that the systems may leave
InitialHero == [lives |-> 5, score |-> 0]
HeroValues == {InitialHero, [lives |-> 4, score |-> 10]}

\* window.average_fps(), in tenths of a frame per second
FpsTenths == {585}

\* What a session exercises.  In a "player" session the host delivers every
\* event and the systems do no more than write the outcome flag; in a
\* "systems" session the systems also create and delete entities and change
\* the Hero component, and the player presses no direction key; in a "faulty"
\* session collaborator calls may return Err, the systems do no more than
\* write the outcome flag and the player presses no direction key.
Envs == {"player", "systems", "faulty"}

\* ------------------------------------------------------------- variables
VARIABLES
    state,          \* Scene.state
    cycle_timer,    \* Scene.cycle_timer
    cycle_counter,  \* Scene.cycle_counter
    config,         \* Scene.config: boss_cycle, new_body_cycle
    flag,           \* resource GameStateFlagRes.flag
    pressed_keys,   \* resource PressedKeys.pressed_keys
    dictionary,     \* resource VariableDictionary.dictionary
    atlas,          \* state of the atlas asset
    font,           \* state of the font asset
    alive,          \* store: number of alive entities of each kind
    raised,         \* store: entities created by systems, not yet merged
    killed,         \* store: entities deleted by systems, not yet merged
    hero,           \* the Hero component of Scene.hero
    music,          \* track last handed to MusicPlayer::play_music with success
    closed,         \* window.close() has been called
    env,            \* what the session exercises, see Envs
    faults,         \* history: number of collaborator failures injected
    ticks,          \* history: number of calls of Scene::entity_factory
    requests,       \* history: <<tick, request>> of the spawn and play calls made
    flag_writes,    \* history: number of writes of GameStateFlagRes.flag
    resolver_runs,  \* history: number of runs of defeat and victory
    last            \* history: the last call and the steps it ran

vars == <<state, cycle_timer, cycle_counter, config, flag, pressed_keys,
          dictionary, atlas, font, alive, raised, killed, hero, music, closed,
          env, faults, ticks, requests, flag_writes, resolver_runs, last>>

\* The whole state as one record, so that the methods of Scene read as
\* functions from the state before to the state after.
Cur ==
    [state |-> state, cycle_timer |-> cycle_timer, cycle_counter |-> cycle_counter,
     config |-> config, flag |-> flag, pressed_keys |-> pressed_keys,
     dictionary |-> dictionary, atlas |-> atlas, font |-> font,
     alive |-> alive, raised |-> raised, killed |-> killed, hero |-> hero,
     music |-> music, closed |-> closed, ticks |-> ticks, requests |-> requests,
     flag_writes |-> flag_writes, resolver_runs |-> resolver_runs,
     ran |-> {}, err |-> FALSE]

Apply(s, op, fault) ==
    /\ state' = s.state
    /\ cycle_timer' = s.cycle_timer
    /\ cycle_counter' = s.cycle_counter
    /\ config' = s.config
    /\ flag' = s.flag
    /\ pressed_keys' = s.pressed_keys
    /\ dictionary' = s.dictionary
    /\ atlas' = s.atlas
    /\ font' = s.font
    /\ alive' = s.alive
    /\ raised' = s.raised
    /\ killed' = s.killed
    /\ hero' = s.hero
    /\ music' = s.music
    /\ closed' = s.closed
    /\ env' = env
    /\ faults' = IF fault = "none" THEN faults ELSE faults + 1
    /\ ticks' = s.ticks
    /\ requests' = s.requests
    /\ flag_writes' = s.flag_writes
    /\ resolver_runs' = s.resolver_runs
    /\ last' = [op |-> op, ran |-> s.ran, err |-> s.err]

\* a step of a method: skipped once an earlier step has returned Err
Ran(s, step) == [s EXCEPT !.ran = @ \cup {step}]
Fail(s, step) == [s EXCEPT !.ran = @ \cup {step}, !.err = TRUE]

\* ---------------------------------------------------------- entity store
NoEntities == [k \in Kinds |-> 0]

RECURSIVE SumOver(_, _)
SumOver(f, S) ==
    IF S = {} THEN 0
    ELSE LET k == CHOOSE x \in S : TRUE IN f[k] + SumOver(f, S \ {k})

\* number of entities the store holds: merged or atomically created
EntityCount(s) == SumOver(s.alive, Kinds) + s.raised

\* World::create_entity()...build()
CreateEntity(s, kind) == [s EXCEPT !.alive[kind] = @ + 1]

\* World::delete_all(): every alive or raised entity is killed at once
DeleteAll(s) == [s EXCEPT !.alive = NoEntities, !.raised = 0, !.killed = NoEntities]

\* World::maintain(): merge atomically created and deleted entities
Maintain(s) ==
    Ran([s EXCEPT !.alive = [k \in Kinds |->
                                (IF k = "fireball" THEN @[k] + s.raised ELSE @[k])
                                    - s.killed[k]],
                  !.raised = 0,
                  !.killed = NoEntities], "maintain")

\* create_background(world, sprite)
CreateBackground(s, kind) == CreateEntity(s, kind)

\* ---------------------------------------------------------- audio player
\* MusicPlayer::play_music(track)?
PlayMusic(s, track, fault, point) ==
    LET t == [s EXCEPT !.requests = @ \cup {<<s.ticks, track>>}]
    IN  IF fault = point
        THEN Fail(t, track)
        ELSE Ran([t EXCEPT !.music = track], track)

\* MusicPlayer::update()?
MusicUpdate(s, fault) ==
    IF fault = "music_update" THEN Fail(s, "music_update") ELSE Ran(s, "music_update")

\* ------------------------------------------------------- spawn scheduler
\* EntityFactory::create_entity(world)?
FactoryCreateEntity(s, fault) ==
    LET t == [s EXCEPT !.requests = @ \cup {<<s.ticks, "routine">>}]
    IN  IF fault = "create_entity"
        THEN Fail(t, "create_entity")
        ELSE Ran(CreateEntity(t, "enemy"), "create_entity")

\* crate::enemy::create_boss(world, boss_config)
CreateBoss(s) ==
    Ran(CreateEntity([s EXCEPT !.requests = @ \cup {<<s.ticks, "boss">>}], "boss"),
        "create_boss")

\* Mutant of EntityFactory: the interval is tested before cycle_timer is
\* incremented.
EntityFactoryTestsBeforeIncrement(s, fault) ==
    LET t == Ran([s EXCEPT !.ticks = @ + 1], "entity_factory")
    IN  IF t.cycle_counter < t.config.boss_cycle
        THEN LET a == IF t.cycle_timer = 0
                      THEN PlayMusic(t, "normal_music", fault, "play_normal")
                      ELSE t
             IN  IF a.err THEN a
                 ELSE LET b == [a EXCEPT !.cycle_timer = @ + 1]
                      IN  IF a.cycle_timer % b.config.new_body_cycle = 0
                          THEN LET c == [b EXCEPT !.cycle_counter = @ + 1]
                               IN  IF c.cycle_counter = c.config.boss_cycle
                                   THEN LET d == PlayMusic(c, "boss_music", fault, "play_boss")
                                        IN  IF d.err THEN d ELSE CreateBoss(d)
                                   ELSE FactoryCreateEntity(c, fault)
                          ELSE b
        ELSE t

\* Mutant of EntityFactory: the scheduler still ticks when cycle_counter has
\* reached boss_cycle (<= for <).
EntityFactoryOffByOne(s, fault) ==
    LET t == Ran([s EXCEPT !.ticks = @ + 1], "entity_factory")
    IN  IF t.cycle_counter <= t.config.boss_cycle
        THEN LET a == IF t.cycle_timer = 0
                      THEN PlayMusic(t, "normal_music", fault, "play_normal")
                      ELSE t
             IN  IF a.err THEN a
                 ELSE LET b == [a EXCEPT !.cycle_timer = @ + 1]
                      IN  IF b.cycle_timer % b.config.new_body_cycle = 0
                          THEN LET c == [b EXCEPT !.cycle_counter = @ + 1]
                               IN  IF c.cycle_counter = c.config.boss_cycle
                                   THEN LET d == PlayMusic(c, "boss_music", fault, "play_boss")
                                        IN  IF d.err THEN d ELSE CreateBoss(d)
                                   ELSE FactoryCreateEntity(c, fault)
                          ELSE b
        ELSE t

\* Scene::entity_factory.  cycle_timer stays below
\* boss_cycle * new_body_cycle + 1, so the u64 and u32 additions never wrap.
\* Mutant of EntityFactory: the test for the first tick is made after the
\* timer has been incremented.
EntityFactoryMusicAfterIncrement(s, fault) ==
    LET t == Ran([s EXCEPT !.ticks = @ + 1], "entity_factory")
    IN  IF t.cycle_counter < t.config.boss_cycle
        THEN LET b == [t EXCEPT !.cycle_timer = @ + 1]
                 a == IF b.cycle_timer = 0
                      THEN PlayMusic(b, "normal_music", fault, "play_normal")
                      ELSE b
             IN  IF a.err THEN a
                 ELSE IF a.cycle_timer % a.config.new_body_cycle = 0
                      THEN LET c == [a EXCEPT !.cycle_counter = @ + 1]
                           IN  IF c.cycle_counter = c.config.boss_cycle
                               THEN LET d == PlayMusic(c, "boss_music", fault, "play_boss")
                                    IN  IF d.err THEN d ELSE CreateBoss(d)
                               ELSE FactoryCreateEntity(c, fault)
                      ELSE a
        ELSE t

\* Mutant of EntityFactory: the timer restarts at every spawn.
EntityFactoryResetsTimer(s, fault) ==
    LET t == Ran([s EXCEPT !.ticks = @ + 1], "entity_factory")
    IN  IF t.cycle_counter < t.config.boss_cycle
        THEN LET a == IF t.cycle_timer = 0 /\ t.cycle_counter = 0
                      THEN PlayMusic(t, "normal_music", fault, "play_normal")
                      ELSE t
             IN  IF a.err THEN a
                 ELSE LET b == [a EXCEPT !.cycle_timer = @ + 1]
                      IN  IF b.cycle_timer % b.config.new_body_cycle = 0
                          THEN LET c == [b EXCEPT !.cycle_counter = @ + 1,
                                                  !.cycle_timer = 0]
                               IN  IF c.cycle_counter = c.config.boss_cycle
                                   THEN LET d == PlayMusic(c, "boss_music", fault, "play_boss")
                                        IN  IF d.err THEN d ELSE CreateBoss(d)
                                   ELSE FactoryCreateEntity(c, fault)
                          ELSE b
        ELSE t

EntityFactory(s, fault) ==
    LET t == Ran([s EXCEPT !.ticks = @ + 1], "entity_factory")
    IN  IF t.cycle_counter < t.config.boss_cycle
        THEN LET a == IF t.cycle_timer = 0
                      THEN PlayMusic(t, "normal_music", fault, "play_normal")
                      ELSE t
             IN  IF a.err THEN a
                 ELSE LET b == [a EXCEPT !.cycle_timer = @ + 1]
                      IN  IF b.cycle_timer % b.config.new_body_cycle = 0
                          THEN LET c == [b EXCEPT !.cycle_counter = @ + 1]
                               IN  IF c.cycle_counter = c.config.boss_cycle
                                   THEN LET d == PlayMusic(c, "boss_music", fault, "play_boss")
                                        IN  IF d.err THEN d ELSE CreateBoss(d)
                                   ELSE FactoryCreateEntity(c, fault)
                          ELSE b
        ELSE t

\* ----------------------------------------------------- simulation systems
\* What one run of the six systems does to the state scene.rs observes: the
\* outcome flag it sets, an entity it creates, an entity it deletes, the Hero
\* component it leaves behind.  The systems set the outcome flag only while
\* it is absent (the specification's "set at most once") and never clear it.
SysWrites == {NoFlag, "Victory", "Defeat"}
SysKills == {"none", "hero"}
NoEffect(h) == [write |-> NoFlag, create |-> 0, kill |-> "none", hero |-> h]
FlagEffects(h) == {[NoEffect(h) EXCEPT !.write = w] : w \in SysWrites}
SysEffects(h) ==
    FlagEffects(h)
        \cup {[NoEffect(h) EXCEPT !.create = 1, !.write = w] : w \in SysWrites}
        \cup {[NoEffect(h) EXCEPT !.kill = k] : k \in SysKills}
        \cup {[NoEffect(h) EXCEPT !.hero = v] : v \in HeroValues}

\* the effect is one the systems can have in state s
SysPossible(s, sys) ==
    /\ sys.write # NoFlag => s.flag = NoFlag
    /\ s.alive["fireball"] + s.raised + sys.create <= MaxFireballs
    /\ sys.kill # "none" => s.alive[sys.kill] - s.killed[sys.kill] > 0
    /\ sys.hero # s.hero => s.alive["hero"] > 0 /\ s.hero = InitialHero

\* the six run_now calls of Scene::run_update_systems, as one effect
RunSystems(s, sys) ==
    LET a == [s EXCEPT !.flag = IF sys.write = NoFlag THEN @ ELSE sys.write,
                       !.flag_writes = IF sys.write = NoFlag THEN @ ELSE @ + 1,
                       !.raised = @ + sys.create,
                       !.killed = IF sys.kill = "none" THEN @
                                  ELSE [@ EXCEPT ![sys.kill] = @ + 1],
                       !.hero = sys.hero]
    IN  IF sys.create > 0 THEN Ran(a, "system_create") ELSE a

\* Scene::run_update_systems
RunUpdateSystems(s, sys) == Ran(RunSystems(s, sys), "run_update_systems")

\* ------------------------------------------------------ outcome resolvers
\* Mutant of EndGame: the store is not wiped.
EndGameNoWipe(s) ==
    Ran([s EXCEPT !.state = "GameOver"], "end_game")

\* Mutant of EndGame: the state is not moved to GameOver.
EndGameKeepsState(s) ==
    Ran(DeleteAll(s), "end_game")

\* Scene::end_game
\* Mutant of EndGame: the wipe also resets the flag.
EndGameClearsFlag(s) ==
    Ran([DeleteAll(s) EXCEPT !.state = "GameOver", !.flag = NoFlag], "end_game")

EndGame(s) ==
    Ran([DeleteAll(s) EXCEPT !.state = "GameOver"], "end_game")

\* Scene::defeat
Defeat(s, fault) ==
    LET a == [Ran(s, "defeat") EXCEPT !.resolver_runs = @ + 1]
        b == EndGame(a)
        c == CreateBackground(b, "defeat_background")
    IN  PlayMusic(c, "game_over_music", fault, "play_outcome")

\* Scene::victory
Victory(s, fault) ==
    LET a == [Ran(s, "victory") EXCEPT !.resolver_runs = @ + 1]
        b == EndGame(a)
        c == CreateBackground(b, "victory_background")
    IN  PlayMusic(c, "victory_music", fault, "play_outcome")

\* --------------------------------------------------------- Scene::update
\* the Running branch of update, up to the `?` after the resolver
\* Mutant of Pipeline: the flag is read before the systems run.
PipelineReadsFlagFirst(s, fault, sys) ==
    LET a == EntityFactory(s, fault)
    IN  IF a.err THEN a
        ELSE LET b == RunUpdateSystems(a, sys)
             IN  IF a.flag = "Victory" THEN Victory(b, fault)
                 ELSE IF a.flag = "Defeat" THEN Defeat(b, fault)
                 ELSE b

Pipeline(s, fault, sys) ==
    LET a == EntityFactory(s, fault)
    IN  IF a.err THEN a
        ELSE LET b == RunUpdateSystems(a, sys)
             IN  IF b.flag = "Victory" THEN Victory(b, fault)
                 ELSE IF b.flag = "Defeat" THEN Defeat(b, fault)
                 ELSE b

\* Mutant of UpdateFn: update returns as soon as a resolver has run.
UpdateFnReturnsAfterResolver(s, fault, sys) ==
    IF s.state # "WaitingInput"
    THEN LET a == IF s.state = "Running" THEN Pipeline(s, fault, sys) ELSE s
         IN  IF a.err \/ a.ran \cap {"defeat", "victory"} # {} THEN a
             ELSE LET b == MusicUpdate(a, fault)
                  IN  IF b.err THEN b ELSE Maintain(b)
    ELSE s

\* Scene::update
\* Mutant of UpdateFn: the pipeline runs in every state but WaitingInput.
UpdateFnPipelineWhenNotRunning(s, fault, sys) ==
    IF s.state # "WaitingInput"
    THEN LET a == Pipeline(s, fault, sys)
         IN  IF a.err THEN a
             ELSE LET b == MusicUpdate(a, fault)
                  IN  IF b.err THEN b ELSE Maintain(b)
    ELSE s

UpdateFn(s, fault, sys) ==
    IF s.state # "WaitingInput"
    THEN LET a == IF s.state = "Running" THEN Pipeline(s, fault, sys) ELSE s
         IN  IF a.err THEN a
             ELSE LET b == MusicUpdate(a, fault)
                  IN  IF b.err THEN b ELSE Maintain(b)
    ELSE s

\* ---------------------------------------------------------- Scene::event
\* the events one arm of the match in the Running | Paused branch lists
PressEvents(k) ==
    CASE k = "KeyUp" -> {KeyEv("Up", "Pressed"), KeyEv("W", "Pressed"), PadEv("DpadUp", "Pressed")}
      [] k = "KeyLeft" -> {KeyEv("Left", "Pressed"), KeyEv("A", "Pressed"), PadEv("DpadLeft", "Pressed")}
      [] k = "KeyRight" -> {KeyEv("Right", "Pressed"), KeyEv("D", "Pressed"), PadEv("DpadRight", "Pressed")}

\* Mutant of ReleaseEvents: gamepad releases are not recognised.
ReleaseEventsKeyboardOnly(k) ==
    CASE k = "KeyUp" -> {KeyEv("Up", "Released"), KeyEv("W", "Released")}
      [] k = "KeyLeft" -> {KeyEv("Left", "Released"), KeyEv("A", "Released")}
      [] k = "KeyRight" -> {KeyEv("Right", "Released"), KeyEv("D", "Released")}

ReleaseEvents(k) ==
    CASE k = "KeyUp" -> {KeyEv("Up", "Released"), KeyEv("W", "Released"), PadEv("DpadUp", "Released")}
      [] k = "KeyLeft" -> {KeyEv("Left", "Released"), KeyEv("A", "Released"), PadEv("DpadLeft", "Released")}
      [] k = "KeyRight" -> {KeyEv("Right", "Released"), KeyEv("D", "Released"), PadEv("DpadRight", "Released")}

PauseEvents == {KeyEv("P", "Pressed"), KeyEv("Pause", "Pressed"), PadEv("Start", "Pressed")}

EscapePressed == KeyEv("Escape", "Pressed")
ReturnPressed == KeyEv("Return", "Pressed")

CloseEvents == {EscapePressed, ReturnPressed, PadEv("Start", "Pressed")}

\* Mutant of EventWaitingInput: any key press starts the game.
EventWaitingInputAnyPress(s, e) ==
    IF e.dev = "Key" /\ e.bs = "Pressed"
    THEN Ran([s EXCEPT !.state = "Initialiazing"], "start")
    ELSE s

\* the arm GameState::WaitingInput
EventWaitingInput(s, e) ==
    IF e = ReturnPressed
    THEN Ran([s EXCEPT !.state = "Initialiazing"], "start")
    ELSE s

\* the inner match of the arm GameState::Running | GameState::Paused
EventKeys(s, e) ==
    IF \E k \in KeyboardKeys : e \in PressEvents(k)
    THEN LET k == CHOOSE k \in KeyboardKeys : e \in PressEvents(k)
         IN  Ran([s EXCEPT !.pressed_keys = @ \cup {k}], "add")
    ELSE IF \E k \in KeyboardKeys : e \in ReleaseEvents(k)
    THEN LET k == CHOOSE k \in KeyboardKeys : e \in ReleaseEvents(k)
         IN  Ran([s EXCEPT !.pressed_keys = @ \ {k}], "remove")
    ELSE IF e \in PauseEvents
    THEN IF s.state = "Running" THEN Ran([s EXCEPT !.state = "Paused"], "pause")
         ELSE IF s.state = "Paused" THEN Ran([s EXCEPT !.state = "Running"], "resume")
         ELSE s
    ELSE s

\* the `if let Event::Key(Key::Escape, ButtonState::Pressed)` of the same arm
EventEscape(s, e) ==
    IF e = EscapePressed
    THEN Ran([s EXCEPT !.flag = "Defeat", !.flag_writes = @ + 1], "escape")
    ELSE s

\* Mutant of EventGameOver: only Escape closes the window.
EventGameOverEscapeOnly(s, e) ==
    IF e = EscapePressed
    THEN Ran([s EXCEPT !.closed = TRUE], "close")
    ELSE s

\* the arm GameState::GameOver
EventGameOver(s, e) ==
    IF e \in CloseEvents
    THEN Ran([s EXCEPT !.closed = TRUE], "close")
    ELSE s

\* Mutant of EventFn: Initialiazing takes the arm of Running and Paused.
EventFnKeysWhileInitializing(s, e) ==
    CASE s.state = "WaitingInput" -> EventWaitingInput(s, e)
      [] s.state \in {"Initialiazing", "Running", "Paused"} ->
            EventEscape(EventKeys(s, e), e)
      [] s.state = "GameOver" -> EventGameOver(s, e)
      [] OTHER -> s

EventFn(s, e) ==
    CASE s.state = "WaitingInput" -> EventWaitingInput(s, e)
      [] s.state \in {"Running", "Paused"} -> EventEscape(EventKeys(s, e), e)
      [] s.state = "GameOver" -> EventGameOver(s, e)
      [] OTHER -> s

\* ----------------------------------------------------------- Scene::draw
\* decimal digits of a natural number, most significant first
RECURSIVE Digits(_)
Digits(n) == IF n < 10 THEN <<n>> ELSE Append(Digits(n \div 10), n % 10)

\* format!("{:.0}", x) for x = tenths / 10: the nearest integer, ties to even
FormatFps(tenths) ==
    LET q == tenths \div 10
        r == tenths % 10
    IN  Digits(IF r > 5 \/ (r = 5 /\ q % 2 = 1) THEN q + 1 ELSE q)

\* "v" followed by CARGO_PKG_VERSION
EngineVersion == <<"v", "CARGO_PKG_VERSION">>

\* the dictionary add_resorces installs
InitialDictionary ==
    [FramesPerSecond |-> <<6, 0>>, HeroLives |-> <<5>>, Score |-> <<0>>,
     EngineVersion |-> EngineVersion]

\* Mutant of UpdateLabels: the dictionary is rewritten without looking the
\* hero up in the store.
UpdateLabelsNoLookup(s, fps) ==
    Ran([s EXCEPT !.dictionary =
             [FramesPerSecond |-> FormatFps(fps),
              HeroLives |-> Digits(s.hero.lives),
              Score |-> Digits(s.hero.score),
              EngineVersion |-> EngineVersion]], "update_labels")

\* Scene::update_labels
UpdateLabels(s, fps) ==
    IF s.alive["hero"] > 0
    THEN Ran([s EXCEPT !.dictionary =
                  [FramesPerSecond |-> FormatFps(fps),
                   HeroLives |-> Digits(s.hero.lives),
                   Score |-> Digits(s.hero.score),
                   EngineVersion |-> EngineVersion]], "update_labels")
    ELSE s

\* Mutant of HasLoaded: an asset counts as loaded in every state but
\* WaitingInput.
HasLoadedOutsideWaiting(s, asset) ==
    IF s.state # "WaitingInput" THEN "true"
    ELSE IF asset = "ready" THEN "true"
    ELSE IF asset = "failed" THEN "err"
    ELSE "false"

\* Scene::has_loaded_atlas and Scene::has_loaded_font: "true", "false" or
\* "err" (the asset's future has failed)
HasLoaded(s, asset) ==
    IF s.state # "WaitingInput" /\ s.state # "Initialiazing" THEN "true"
    ELSE IF asset = "ready" THEN "true"
    ELSE IF asset = "failed" THEN "err"
    ELSE "false"

\* loaded_assets of draw; && does not poll the font unless the atlas is loaded
LoadedAssets(s) ==
    LET a == HasLoaded(s, s.atlas)
    IN  IF a = "true" THEN HasLoaded(s, s.font) ELSE a

\* the part of draw after the asset gate
Render(s, fault, fps) ==
    LET a == IF s.state = "Initialiazing"
             THEN Ran([s EXCEPT !.state = "Running"], "start_running")
             ELSE s
    IN  IF fault = "render_system" THEN Fail(a, "render_system")
        ELSE LET b == Ran(a, "render_system")
                 c == IF b.state = "Running" THEN UpdateLabels(b, fps) ELSE b
             IN  IF c.state = "Running" \/ c.state = "Paused"
                 THEN IF fault = "label_render_system"
                      THEN Fail(c, "label_render_system")
                      ELSE Maintain(Ran(c, "label_render_system"))
                 ELSE Maintain(c)

DrawFn(s, fault, fps) ==
    IF fault = "clear" THEN Fail(s, "clear")
    ELSE LET a == Ran(s, "clear")
             loaded == LoadedAssets(a)
         IN  IF loaded = "err" THEN Fail(a, "asset")
             ELSE IF loaded = "false" THEN a
             ELSE IF a.state = "WaitingInput"
             THEN IF fault = "font_render" THEN Fail(a, "prompt") ELSE Ran(a, "prompt")
             ELSE Render(a, fault, fps)

\* ---------------------------------------------------------------- actions
\* Scene::new, for each configuration within the bounds.  new_body_cycle = 0
\* makes the first scheduler tick panic (remainder by zero) and is left out.
InitIn(envs) ==
    /\ state = "WaitingInput"
    /\ cycle_timer = 0
    /\ cycle_counter = 0
    /\ config \in [boss_cycle : 0..MaxBossCycle, new_body_cycle : 1..MaxInterval]
    /\ flag = NoFlag
    /\ pressed_keys = {}
    /\ dictionary = InitialDictionary
    /\ atlas = "loading"
    /\ font = "loading"
    /\ alive = [NoEntities EXCEPT !["main_background"] = 1, !["label"] = 4, !["hero"] = 1]
    /\ raised = 0
    /\ killed = NoEntities
    /\ hero = InitialHero
    /\ music = "none"
    /\ closed = FALSE
    /\ env \in envs
    /\ faults = 0
    /\ ticks = 0
    /\ requests = {}
    /\ flag_writes = 0
    /\ resolver_runs = 0
    /\ last = [op |-> "new", ran |-> {}, err |-> FALSE]

Init == InitIn({"player", "systems"})
InitFaulty == InitIn({"faulty"})

DirectionEvents == UNION {PressEvents(k) \cup ReleaseEvents(k) : k \in KeyboardKeys}

\* the host delivers one input event
Event(e) ==
    /\ e \in DirectionEvents => env = "player"
    /\ e = EscapePressed /\ state \in {"Running", "Paused"} => flag_writes < MaxFlagWrites
    /\ Apply(EventFn(Cur, e), "event", "none")

\* the host calls update; `fault` is the collaborator call that fails, if any
Update(fault, sys) ==
    /\ state = "Running" => ticks < MaxTicks(config) /\ SysPossible(Cur, sys)
    /\ env # "systems" => sys \in FlagEffects(hero)
    /\ state # "Running" => sys = NoEffect(hero)
    /\ fault # "none" => faults < MaxFaults
    /\ Apply(UpdateFn(Cur, fault, sys), "update", fault)

\* the host calls draw
Draw(fault, fps) ==
    /\ fault # "none" => faults < MaxFaults
    /\ Apply(DrawFn(Cur, fault, fps), "draw", fault)

\* the future of an asset completes
AssetLoads(outcome) ==
    /\ outcome = "failed" => faults < MaxFaults
    /\ faults' = IF outcome = "failed" THEN faults + 1 ELSE faults
    /\ \/ atlas = "loading" /\ atlas' = outcome /\ font' = font
       \/ font = "loading" /\ font' = outcome /\ atlas' = atlas
    /\ last' = [op |-> "asset", ran |-> {}, err |-> FALSE]
    /\ UNCHANGED <<state, cycle_timer, cycle_counter, config, flag, pressed_keys,
                   dictionary, alive, raised, killed, hero, music, closed, env,
                   ticks, requests, flag_writes, resolver_runs>>

EventCall == \E e \in Events : Event(e)
UpdateCall == \E sys \in SysEffects(hero) : Update("none", sys)
DrawCall == \E fps \in FpsTenths : Draw("none", fps)
AssetReady == AssetLoads("ready")

\* every collaborator call returns Ok
Next == EventCall \/ UpdateCall \/ DrawCall \/ AssetReady

Spec == Init /\ [][Next]_vars

UpdateCallFaulty == \E fault \in UpdateFaults, sys \in SysEffects(hero) : Update(fault, sys)
DrawCallFaulty == \E fault \in DrawFaults, fps \in FpsTenths : Draw(fault, fps)
AssetFails == AssetLoads("failed")

\* a collaborator call may return Err
NextFaulty == EventCall \/ UpdateCallFaulty \/ DrawCallFaulty \/ AssetReady \/ AssetFails

SpecFaulty == InitFaulty /\ [][NextFaulty]_vars

TypeOK ==
    /\ state \in GameStates
    /\ cycle_timer \in 0..(MaxBossCycle * MaxInterval)
    /\ cycle_counter \in 0..MaxBossCycle
    /\ flag \in FlagValues \cup {NoFlag}
    /\ pressed_keys \subseteq KeyboardKeys
    /\ atlas \in AssetStates /\ font \in AssetStates
    /\ alive \in [Kinds -> Nat]
    /\ raised \in Nat
    /\ music \in Tracks \cup {"none"}
    /\ closed \in BOOLEAN
    /\ env \in Envs
    /\ faults \in 0..MaxFaults
    /\ flag_writes \in 0..MaxFlagWrites
    /\ ticks \in 0..MaxTicks(config)

\* ================================================================ claims
ResolverRan(l) == l.op = "update" /\ l.ran \cap {"defeat", "victory"} # {}

\* the triggers the transition table lists for a state
ListedTrigger(st, e) ==
    \/ st = "WaitingInput" /\ e = ReturnPressed
    \/ st \in {"Running", "Paused"} /\ e \in PauseEvents \cup {EscapePressed}
    \/ st = "GameOver" /\ e \in CloseEvents

\* the only steps by which the session state changes
LegalTransition ==
    state' # state =>
        \/ state = "WaitingInput" /\ state' = "Initialiazing" /\ last'.op = "event"
        \/ state = "Initialiazing" /\ state' = "Running" /\ last'.op = "draw"
              /\ atlas = "ready" /\ font = "ready"
        \/ state = "Running" /\ state' = "Paused" /\ last'.op = "event"
        \/ state = "Paused" /\ state' = "Running" /\ last'.op = "event"
        \/ state = "Running" /\ state' = "GameOver" /\ last'.op = "update"
              /\ flag' # NoFlag

\* an event call that changes state or PressedKeys was given one of `allowed`
OnlyEventsChange(allowed(_, _)) ==
    (last'.op = "event" /\ (state' # state \/ pressed_keys' # pressed_keys))
        => \A e \in Events : Event(e) => allowed(state, e)

\* an event outside `allowed`, handled in the current state, would change
\* neither state nor PressedKeys
EventsIgnored(allowed(_, _)) ==
    \A e \in Events :
        ~allowed(state, e) =>
            LET r == EventFn(Cur, e)
            IN  r.state = state /\ r.pressed_keys = pressed_keys

ListedOrDirection(st, e) ==
    ListedTrigger(st, e) \/ (st \in {"Running", "Paused"} /\ e \in DirectionEvents)

TicksOf(kind) == {r[1] : r \in {q \in requests : q[2] = kind}}

\* C2: with spawn_interval N >= 1 and boss_cycle B >= 1, after any number of
\* scheduler ticks the routine spawns requested are those of the ticks N, 2N,
\* ..., (B-1)N reached so far, the boss is requested at tick B*N and at no
\* other tick, and the boss track is played on that tick and on no other.
C2_SpawnSchedule ==
    LET N == config.new_body_cycle
        B == config.boss_cycle
    IN  B >= 1 =>
            /\ TicksOf("routine") = {k * N : k \in {j \in 1..(B - 1) : j * N <= ticks}}
            /\ TicksOf("boss") = {t \in {B * N} : t <= ticks}
            /\ TicksOf("boss_music") = TicksOf("boss")

\* two routine spawns, the boss, and a tick after the boss tick
C2_Witness ==
    /\ config.boss_cycle = 3 /\ config.new_body_cycle = 2
    /\ ticks = 7
    /\ TicksOf("routine") = {2, 4} /\ TicksOf("boss") = {6}

\* C3: cycle_counter never exceeds boss_cycle, and no call decreases it.
C3_CounterBounded ==
    [](cycle_counter <= config.boss_cycle) /\ [][cycle_counter' >= cycle_counter]_vars

\* the scheduler was ticked after the counter reached boss_cycle
C3_Witness ==
    /\ cycle_counter = config.boss_cycle /\ config.boss_cycle = 3
    /\ ticks > config.boss_cycle * config.new_body_cycle
    /\ "entity_factory" \in last.ran

\* C4: GameOver is never left; in GameOver a Return or Escape press closes
\* the window; the window is closed by no call other than an event received
\* in GameOver.
C4_GameOverTerminal ==
    /\ [][state = "GameOver" => state' = "GameOver"]_vars
    /\ [](state = "GameOver" =>
            \A e \in {ReturnPressed, EscapePressed} : EventFn(Cur, e).closed)
    /\ [][closed' # closed => state = "GameOver" /\ last'.op = "event"]_vars

\* the window was closed by an event received in GameOver
C4_Witness ==
    state = "GameOver" /\ closed /\ last.op = "event" /\ "close" \in last.ran

\* C5 as stated: the update call that follows an Escape press received in
\* Running or in Paused returns with state GameOver.
C5_QuitHandledNextUpdate ==
    [][(/\ last.op = "event" /\ "escape" \in last.ran
        /\ state \in {"Running", "Paused"} /\ flag = "Defeat"
        /\ last'.op = "update")
            => state' = "GameOver"]_vars

\* C6 as stated: the outcome flag is written at most once in a session.
C6_FlagWrittenOnce == flag_writes <= 1

\* C7 as stated: an update that runs a resolver runs neither the audio tick
\* nor the commit of deferred mutations.
C7_AsStated ==
    ResolverRan(last) => "music_update" \notin last.ran /\ "maintain" \notin last.ran

\* C7, amended: an update that runs a resolver goes on, in that same call, to
\* the audio tick and the commit of deferred mutations: both run unless a
\* collaborator call of that update returns Err, and the commit runs only
\* then.
C7_TickAndCommitRun ==
    ResolverRan(last) =>
        /\ ~last.err => "music_update" \in last.ran
        /\ ~last.err <=> "maintain" \in last.ran

\* defeat ran and the same update went on to tick the audio and to commit
C7_Witness ==
    /\ ResolverRan(last) /\ "defeat" \in last.ran /\ ~last.err
    /\ "music_update" \in last.ran /\ "maintain" \in last.ran

\* C8: an update that runs a resolver returns with state GameOver and with
\* the store holding one entity, the background of that outcome.
C8_OneEntityLeft ==
    ResolverRan(last) =>
        /\ state = "GameOver"
        /\ EntityCount(Cur) = 1
        /\ "defeat" \in last.ran => alive["defeat_background"] = 1
        /\ "victory" \in last.ran => alive["victory_background"] = 1

\* the scheduler spawned an entity and the systems created one in the frame
\* in which defeat ran
C8_Witness ==
    /\ ResolverRan(last) /\ "defeat" \in last.ran
    /\ "create_entity" \in last.ran /\ "system_create" \in last.ran

\* C9: defeat and victory together run at most once in a session.
C9_ResolverRunsOnce == resolver_runs <= 1

\* an update made after the resolver ran, with the flag still set, ran none
C9_Witness ==
    /\ resolver_runs = 1 /\ flag # NoFlag /\ state = "GameOver"
    /\ last.op = "update" /\ "maintain" \in last.ran /\ ~ResolverRan(last)

\* C10: a draw in Initialiazing with both assets ready moves to Running; a
\* draw with an asset not ready, and a draw in WaitingInput, leave the state
\* unchanged.
C10_AssetGate ==
    [][last'.op = "draw" =>
        /\ (state = "Initialiazing" /\ atlas = "ready" /\ font = "ready")
                => state' = "Running"
        /\ (atlas # "ready" \/ font # "ready") => state' = state
        /\ state = "WaitingInput" => state' = state]_vars

\* the draw that found both assets ready started the game
C10_Witness ==
    state = "Running" /\ last.op = "draw" /\ "start_running" \in last.ran

\* C11: the dictionary is changed by no call other than a draw that reaches
\* the label refresh with state Running while the hero is in the store.
C11_DictionaryOnlyByRunningDraw ==
    [][dictionary' # dictionary =>
        /\ last'.op = "draw"
        /\ state' = "Running"
        /\ alive["hero"] > 0
        /\ "update_labels" \in last'.ran]_vars

\* a Running draw whose hero lookup failed left a refreshed dictionary alone
C11_Witness ==
    /\ state = "Running" /\ last.op = "draw" /\ ~last.err
    /\ "render_system" \in last.ran /\ "update_labels" \notin last.ran
    /\ alive["hero"] = 0
    /\ dictionary # InitialDictionary
    /\ dictionary.HeroLives # Digits(hero.lives)

\* C12: an update made in Paused or GameOver runs only the audio tick and the
\* commit (no scheduler tick, no system, no outcome handler) and leaves state,
\* cycle_timer, cycle_counter and the spawn and music requests unchanged; an
\* update made in WaitingInput runs nothing and changes nothing.
C12_UpdateOutsideRunning ==
    [][last'.op = "update" =>
        /\ state \in {"Paused", "GameOver"} =>
              /\ last'.ran = {"music_update", "maintain"}
              /\ UNCHANGED <<state, cycle_timer, cycle_counter, requests, ticks,
                             flag, resolver_runs>>
        /\ state = "WaitingInput" =>
              /\ last'.ran = {}
              /\ UNCHANGED <<state, cycle_timer, cycle_counter, requests, ticks,
                             flag, resolver_runs, music, alive, raised, killed,
                             dictionary, pressed_keys, closed>>]_vars

\* a Paused update with the flag already set, mid-interval: only the audio
\* tick and the commit ran
C12_Witness ==
    /\ state = "Paused" /\ last.op = "update"
    /\ last.ran = {"music_update", "maintain"}
    /\ flag = "Defeat"
    /\ cycle_counter < config.boss_cycle
    /\ cycle_timer % config.new_body_cycle # 0

\* the aliases of a direction as the claim lists them: arrow key, letter key,
\* gamepad d-pad button
Aliases(k, b) ==
    CASE k = "KeyUp" -> {KeyEv("Up", b), KeyEv("W", b), PadEv("DpadUp", b)}
      [] k = "KeyLeft" -> {KeyEv("Left", b), KeyEv("A", b), PadEv("DpadLeft", b)}
      [] k = "KeyRight" -> {KeyEv("Right", b), KeyEv("D", b), PadEv("DpadRight", b)}

\* C13: in Running and Paused a press of any alias of a direction adds that
\* direction to the pressed set and a release of any alias removes it, whatever
\* alias set it; the other directions are left as they were.
C13_DirectionBits ==
    state \in {"Running", "Paused"} =>
        \A k \in KeyboardKeys :
            /\ \A e \in Aliases(k, "Pressed") :
                   EventFn(Cur, e).pressed_keys = pressed_keys \cup {k}
            /\ \A e \in Aliases(k, "Released") :
                   EventFn(Cur, e).pressed_keys = pressed_keys \ {k}

\* a release handled in Paused left two other directions held
C13_Witness ==
    /\ state = "Paused" /\ last.op = "event" /\ "remove" \in last.ran
    /\ Cardinality(pressed_keys) = 2

\* the scene has not been Running yet
BeforeRunning == state \in {"WaitingInput", "Initialiazing"}

\* the opening of a game, as far as the Running updates made so far show it:
\* the first one started the normal track, none before the N-th requested a
\* spawn, and the N-th requested one routine entity and nothing else
OpeningSchedule ==
    LET N == config.new_body_cycle
    IN  /\ ticks >= 1 => 1 \in TicksOf("normal_music")
        /\ \A t \in 1..ticks :
               t < N => t \notin TicksOf("routine") \cup TicksOf("boss")
        /\ ticks >= N => N \in TicksOf("routine") /\ N \notin TicksOf("boss")

\* C14 as stated, for every configuration: no scheduler tick and no request
\* before Running, then the opening schedule.
C14_AsStated ==
    /\ BeforeRunning => ticks = 0 /\ requests = {}
    /\ OpeningSchedule

\* how the state leaves WaitingInput and Initialiazing, and which calls are
\* scheduler ticks
OpeningSteps ==
    /\ state = "WaitingInput" /\ state' # state =>
           state' = "Initialiazing" /\ last'.op = "event"
    /\ state = "Initialiazing" /\ state' # state =>
           /\ state' = "Running" /\ last'.op = "draw"
           /\ atlas = "ready" /\ font = "ready"
    /\ ticks' # ticks =>
           state = "Running" /\ last'.op = "update" /\ ticks' = ticks + 1

\* C14: from construction the state leaves WaitingInput only for Initialiazing
\* and only by an event, leaves Initialiazing only for Running and only by a
\* draw made with both assets ready; no update made before Running is a
\* scheduler tick; and when boss_cycle >= 2 the first Running update starts the
\* normal track, the first N - 1 Running updates request no spawn and the N-th
\* requests exactly one routine entity.
C14_Opening ==
    /\ [](BeforeRunning => ticks = 0 /\ requests = {} /\ cycle_timer = 0)
    /\ [](config.boss_cycle >= 2 => OpeningSchedule)
    /\ [][OpeningSteps]_vars

\* updates were made before Running, and the second Running update of a game
\* with interval 2 made the first routine spawn
C14_Witness ==
    /\ config.boss_cycle = 3 /\ config.new_body_cycle = 2
    /\ state = "Running" /\ last.op = "update" /\ ticks = 2
    /\ requests = {<<1, "normal_music">>, <<2, "routine">>}
    /\ "create_entity" \in last.ran

C16_RequestsMatchCounter ==
    config.boss_cycle >= 1 =>
        /\ cycle_counter = config.boss_cycle => Cardinality(TicksOf("boss")) = 1
        /\ Cardinality(TicksOf("routine")) + Cardinality(TicksOf("boss")) = cycle_counter

\* C17: without collaborator errors cycle_counter is cycle_timer div
\* spawn_interval and cycle_timer is at most boss_cycle * spawn_interval; a
\* Running update made while cycle_counter < boss_cycle adds exactly one to
\* cycle_timer, and no other call changes it.
C17_TimerAndCounter ==
    /\ [](/\ cycle_counter = cycle_timer \div config.new_body_cycle
          /\ cycle_timer <= config.boss_cycle * config.new_body_cycle)
    /\ [][cycle_timer' =
            IF /\ last'.op = "update" /\ state = "Running"
               /\ cycle_counter < config.boss_cycle
            THEN cycle_timer + 1
            ELSE cycle_timer]_vars

\* a Running update made after the timer reached boss_cycle * spawn_interval
\* left it there
C17_Witness ==
    /\ config.boss_cycle = 3 /\ config.new_body_cycle = 2
    /\ cycle_timer = 6 /\ cycle_counter = 3
    /\ ticks = 7 /\ state = "Running" /\ last.op = "update"

\* C18: while the state is WaitingInput or Initialiazing the flag is absent,
\* no direction is pressed, cycle_timer and cycle_counter are 0 and no spawn or
\* music request has been made; an event received then changes nothing but,
\* for the confirm press in WaitingInput, the state.
C18_NothingBeforeRunning ==
    BeforeRunning =>
        /\ flag = NoFlag /\ pressed_keys = {}
        /\ cycle_timer = 0 /\ cycle_counter = 0
        /\ requests = {} /\ flag_writes = 0
        /\ \A e \in Events :
               EventFn(Cur, e) = [Cur EXCEPT !.state = EventFn(Cur, e).state,
                                             !.ran = EventFn(Cur, e).ran]

\* an event was received and dropped in Initialiazing
C18_Witness ==
    /\ state = "Initialiazing" /\ last.op = "event" /\ last.ran = {}
    /\ env = "player"

\* C19: no call clears a flag that is set, the end-of-game wipe included, and
\* the flag is set whenever the state is GameOver.
C19_FlagStaysSet ==
    /\ [][flag # NoFlag => flag' # NoFlag]_vars
    /\ [](state = "GameOver" => flag # NoFlag)

\* calls were made after the wipe and the flag is still the one that ended
\* the game
C19_Witness ==
    /\ state = "GameOver" /\ flag = "Victory" /\ resolver_runs = 1
    /\ last.op = "draw" /\ "render_system" \in last.ran
    /\ EntityCount(Cur) = 1

====
